---------------------------- MODULE Spec2Model ----------------------------
(* Dataset storage backend: the DatasetManager (services/dataset.py), the   *)
(* HTTP routes around it (routes/dataset_routes.py) and the CLI client      *)
(* (cli.py), as a state machine over the metadata document and the content  *)
(* files of the storage directory.                                          *)
EXTENDS Integers, Sequences, FiniteSets, TLC

(***************************************************************************)
(* Bounds of the model.                                                    *)
(***************************************************************************)
MaxIds == 2          \* size of the uuid space the model draws ids from
MaxFaults == 1       \* file operations that may fail in one run
MaxCalls == 3        \* create_dataset and delete_dataset calls of one run

Procs == {1, 2}      \* callers of the one DatasetManager storage
\* the caller of the runs in which calls do not overlap
Caller == CHOOSE p \in Procs : \A q \in Procs : p <= q

Ids == 1 .. MaxIds
NoId == 0            \* a falsy id (None)

(* File names are sequences of characters, so that the extension test of   *)
(* allowed_file is computed and not assumed.                               *)
NameCsv == <<"a", ".", "c", "s", "v">>
NameTxt == <<"a", ".", "t", "x", "t">>
NameUpperCsv == <<"a", ".", "C", "S", "V">>
NameNoDot == <<"c", "s", "v">>
NameEmpty == <<>>

(* A table is known by its number of numeric columns, [numeric |-> n]: all  *)
(* that the plot handler reads of it.                                      *)

\* values datetime.utcnow() may return
Datetimes == [second : {0}, microsecond : {0, 1}]

(* The direct create_dataset calls: (original_filename, file_size, df) and  *)
(* the time utcnow() returns during the call.                              *)
ManagerInputs ==
    {[filename |-> NameCsv, file_size |-> 0, table |-> [numeric |-> 0],
      utcnow |-> [second |-> 0, microsecond |-> 0]],
     [filename |-> NameTxt, file_size |-> 7, table |-> [numeric |-> 2],
      utcnow |-> [second |-> 0, microsecond |-> 1]]}

NoneIso == <<>>      \* None / "" in the upload_date field of a stored dict
NoPath == <<>>       \* data_path = None

(***************************************************************************)
(* Dataset: construction and serialization                                 *)
(***************************************************************************)
\* mutant of isoformat: the timestamp is written to the second only
isoformat_to_the_second(d) == <<d.second>>

\* datetime.isoformat(): the microseconds are omitted when they are zero
isoformat(d) ==
    IF d.microsecond = 0 THEN <<d.second>> ELSE <<d.second, d.microsecond>>

\* datetime.fromisoformat(): missing microseconds read as zero
fromisoformat(s) ==
    [second |-> s[1], microsecond |-> IF Len(s) > 1 THEN s[2] ELSE 0]

\* mutant of data_path_of: the content file is named after the upload
data_path_by_filename(ds) == <<"storage", "data", ds.filename, "pkl">>

\* str(self.data_dir / f"{dataset.id}.pkl")
data_path_of(ds) == <<"storage", "data", ds.id, "pkl">>

\* Dataset.__init__: id and upload_date take their defaults when falsy.
\* dflt holds what uuid.uuid4() and datetime.utcnow() would return.
Dataset(id, filename, file_size, upload_date, data_path, dflt) ==
    [id |-> IF id # NoId THEN id ELSE dflt.id,
     filename |-> filename,
     file_size |-> file_size,
     upload_date |-> IF upload_date # NoneIso THEN fromisoformat(upload_date)
                     ELSE dflt.upload_date,
     data_path |-> data_path]

to_dict(ds) ==
    [id |-> ds.id,
     filename |-> ds.filename,
     file_size |-> ds.file_size,
     upload_date |-> isoformat(ds.upload_date),
     data_path |-> ds.data_path]

from_dict(data, dflt) ==
    Dataset(data.id, data.filename, data.file_size, data.upload_date,
            data.data_path, dflt)

NoDefaults == [id |-> NoId, upload_date |-> [second |-> 0, microsecond |-> 0]]

\* the defaults Dataset.__init__ can draw while rebuilding a stored dict
DefaultsFor(data) ==
    IF data.id = NoId \/ data.upload_date = NoneIso
    THEN [id : Ids, upload_date : Datetimes]
    ELSE {NoDefaults}

NoDataset ==
    [id |-> NoId, filename |-> NameEmpty, file_size |-> 0,
     upload_date |-> [second |-> 0, microsecond |-> 0], data_path |-> NoPath]

(***************************************************************************)
(* The metadata document: a JSON object, kept as the sequence of its       *)
(* <<key, value>> members in document order.                               *)
(***************************************************************************)
Keys(items) == {items[i][1] : i \in 1 .. Len(items)}

HasKey(items, k) == k \in Keys(items)

Lookup(items, k) == items[CHOOSE i \in 1 .. Len(items) : items[i][1] = k][2]

\* metadata[k] = v
SetItem(items, k, v) ==
    IF HasKey(items, k)
    THEN [i \in 1 .. Len(items) |-> IF items[i][1] = k THEN <<k, v>> ELSE items[i]]
    ELSE Append(items, <<k, v>>)

\* mutant of DelItem: the member is left in the mapping
DelItem_kept(items, k) == items

\* del metadata[k]
DelItem(items, k) == SelectSeq(items, LAMBDA m : m[1] # k)

EmptyMapping == <<>>

(* What open(metadata_file, "r", encoding="utf-8") + json.load raise on    *)
(* each kind of document: a valid one, text that is no JSON, bytes that    *)
(* are no UTF-8 text, no file at all.                                      *)
DocKinds == {"valid", "badjson", "undecodable", "missing"}

ReadError(d) ==
    CASE d.kind = "valid" -> "none"
      [] d.kind = "badjson" -> "JSONDecodeError"
      [] d.kind = "missing" -> "FileNotFoundError"
      [] d.kind = "undecodable" -> "UnicodeDecodeError"

\* DatasetManager._load_metadata
_load_metadata(d) ==
    LET e == ReadError(d) IN
    IF e = "none" THEN [raised |-> FALSE, value |-> d.items]
    ELSE IF e = "JSONDecodeError" THEN [raised |-> FALSE, value |-> EmptyMapping]
    ELSE IF e = "FileNotFoundError" THEN [raised |-> FALSE, value |-> EmptyMapping]
    ELSE [raised |-> TRUE, value |-> EmptyMapping]

(* DatasetManager._save_metadata: open(.., "w") truncates the document     *)
(* and json.dump then writes it. "open" fails before anything is touched,  *)
(* "dump" fails after the truncation and leaves text that is no JSON.      *)
SaveOutcomes == {"ok", "open", "dump"}

_save_metadata(d, metadata, outcome) ==
    CASE outcome = "ok" -> [kind |-> "valid", items |-> metadata]
      [] outcome = "open" -> d
      [] outcome = "dump" -> [kind |-> "badjson", items |-> EmptyMapping]


(***************************************************************************)
(* State                                                                   *)
(***************************************************************************)
VARIABLES
    doc,          \* storage/datasets_metadata.json: [kind, items]
    files,        \* the content files: data_path -> the table pickled there
    pc,           \* per caller: where it stands in its DatasetManager call
    loc,          \* per caller: the locals dataset, df and metadata of the call
    ret,          \* per caller: what its last call returned
    via,          \* per caller: the route handler the call was made from
    resp,         \* the last HTTP response: [route, known, reject, status]
    cli,          \* the last run of the CLI: its command, what it met, its exit code
    issued,       \* history: the ids uuid4 has returned
    created,      \* history: the records create_dataset has returned, in order
    deletedTrue,  \* history: the records delete_dataset has returned True for
    removeFailed, \* history: the ids whose last os.remove in delete_files raised
    deleteArgs,   \* history: the ids delete_dataset has been called with
    anyRaised,    \* history: some DatasetManager call has raised
    faults,       \* history: the file operations that have failed
    calls         \* history: the create_dataset and delete_dataset calls begun

vars ==
    <<doc, files, pc, loc, ret, via, resp, cli, issued, created, deletedTrue,
      removeFailed, deleteArgs, anyRaised, faults, calls>>

NoLocals == [dataset |-> NoDataset, table |-> [numeric |-> 0], metadata |-> EmptyMapping]

NoReturn == [op |-> "none", id |-> NoId, outcome |-> "none"]

NoResponse == [route |-> "none", known |-> FALSE, reject |-> "none", status |-> 0]

NoFiles == [q \in {} |-> [readable |-> TRUE, table |-> [numeric |-> 0]]]

NoCli ==
    [command |-> "none", file_exists |-> FALSE, connected |-> FALSE, status |-> 0,
     writable |-> FALSE, exit |-> 0]

\* DatasetManager.__init__ on a fresh storage directory
Init ==
    /\ doc = _save_metadata([kind |-> "missing", items |-> EmptyMapping], EmptyMapping, "ok")
    /\ files = NoFiles
    /\ pc = [p \in Procs |-> "idle"]
    /\ loc = [p \in Procs |-> NoLocals]
    /\ ret = [p \in Procs |-> NoReturn]
    /\ via = [p \in Procs |-> "direct"]
    /\ resp = NoResponse
    /\ cli = NoCli
    /\ issued = {}
    /\ created = <<>>
    /\ deletedTrue = {}
    /\ removeFailed = {}
    /\ deleteArgs = {}
    /\ anyRaised = FALSE
    /\ faults = 0
    /\ calls = 0

Quiescent == \A p \in Procs : pc[p] = "idle"

\* the outcomes a file operation may have now: it fails only within MaxFaults
Outcomes(all) == IF faults < MaxFaults THEN all ELSE {"ok"}

Fault(outcome) == faults' = IF outcome = "ok" THEN faults ELSE faults + 1

\* os.path.exists(path)
exists(path) == path \in DOMAIN files

\* open(path, "wb") + pickle.dump(df, f): content is [readable, table]
WriteFile(fs, path, content) ==
    [q \in DOMAIN fs \cup {path} |-> IF q = path THEN content ELSE fs[q]]

\* os.remove(path)
RemoveFile(fs, path) == [q \in DOMAIN fs \ {path} |-> fs[q]]


(***************************************************************************)
(* How a DatasetManager call ends. A call made from a route handler also   *)
(* ends the handler, which answers with RouteStatus.                       *)
(***************************************************************************)
Response(route, known, reject, status) ==
    [route |-> route, known |-> known, reject |-> reject, status |-> status]

Returned(op, id, outcome) == [op |-> op, id |-> id, outcome |-> outcome]

\* the status a route handler answers with once its DatasetManager call r ended
RouteStatus(route, r) ==
    CASE route = "create" -> IF r.outcome = "dataset" THEN 201 ELSE 500
      [] route = "delete" -> IF r.outcome = "true" THEN 200 ELSE 500
      [] OTHER -> 0

Finish(p, r) ==
    /\ pc' = [pc EXCEPT ![p] = "idle"]
    /\ loc' = [loc EXCEPT ![p] = NoLocals]
    /\ ret' = [ret EXCEPT ![p] = r]
    /\ via' = [via EXCEPT ![p] = "direct"]
    /\ resp' = IF via[p] = "direct" THEN resp
               ELSE Response(via[p], via[p] = "delete", "none", RouteStatus(via[p], r))
    /\ anyRaised' = (anyRaised \/ r.outcome = "raised")

(***************************************************************************)
(* DatasetManager.create_dataset                                           *)
(***************************************************************************)
\* lines 137-143: a fresh id, the record, its data_path
StartCreate(p, filename, file_size, table, utcnow, route) ==
    /\ pc[p] = "idle"
    /\ calls < MaxCalls
    /\ calls' = calls + 1
    /\ \E id \in Ids \ issued :
          LET d0 == Dataset(id, filename, file_size, NoneIso, NoPath,
                            [id |-> id, upload_date |-> utcnow])
              ds == [d0 EXCEPT !.data_path = data_path_of(d0)]
          IN  /\ loc' = [loc EXCEPT ![p] = [dataset |-> ds, table |-> table,
                                           metadata |-> EmptyMapping]]
              /\ issued' = issued \cup {id}
    /\ pc' = [pc EXCEPT ![p] = "create_save_dataframe"]
    /\ via' = [via EXCEPT ![p] = route]
    /\ UNCHANGED <<doc, files, ret, resp, cli, created, deletedTrue, removeFailed,
                   deleteArgs, anyRaised, faults>>

create_dataset(p) ==
    \E inp \in ManagerInputs :
        StartCreate(p, inp.filename, inp.file_size, inp.table, inp.utcnow, "direct")

(* line 144, Dataset.save_dataframe: "makedirs" fails before the file is    *)
(* opened; "dump" fails after open(.., "wb") has created it. Both re-raise. *)
DataframeOutcomes == {"ok", "makedirs", "dump"}

save_dataframe(p) ==
    /\ pc[p] = "create_save_dataframe"
    /\ \E outcome \in Outcomes(DataframeOutcomes) :
          LET ds == loc[p].dataset IN
          /\ Fault(outcome)
          /\ CASE outcome = "ok" ->
                  /\ files' = WriteFile(files, ds.data_path,
                                        [readable |-> TRUE, table |-> loc[p].table])
                  /\ pc' = [pc EXCEPT ![p] = "create_load"]
                  /\ UNCHANGED <<loc, ret, via, resp, anyRaised>>
               [] outcome = "makedirs" ->
                  /\ UNCHANGED files
                  /\ Finish(p, Returned("create", ds.id, "raised"))
               [] outcome = "dump" ->
                  /\ files' = WriteFile(files, ds.data_path,
                                        [readable |-> FALSE, table |-> loc[p].table])
                  /\ Finish(p, Returned("create", ds.id, "raised"))
    /\ UNCHANGED <<doc, cli, issued, created, deletedTrue, removeFailed, deleteArgs,
                   calls>>

\* line 145
create_load(p) ==
    /\ pc[p] = "create_load"
    /\ LET m == _load_metadata(doc) IN
       IF m.raised
       THEN Finish(p, Returned("create", loc[p].dataset.id, "raised"))
       ELSE /\ loc' = [loc EXCEPT ![p].metadata = m.value]
            /\ pc' = [pc EXCEPT ![p] = "create_save"]
            /\ UNCHANGED <<ret, via, resp, anyRaised>>
    /\ UNCHANGED <<doc, files, cli, issued, created, deletedTrue, removeFailed,
                   deleteArgs, faults, calls>>

\* lines 146-150
create_save(p) ==
    /\ pc[p] = "create_save"
    /\ \E outcome \in Outcomes(SaveOutcomes) :
          LET ds == loc[p].dataset
              metadata == SetItem(loc[p].metadata, ds.id, to_dict(ds))
          IN  /\ Fault(outcome)
              /\ doc' = _save_metadata(doc, metadata, outcome)
              /\ IF outcome = "ok"
                 THEN /\ Finish(p, Returned("create", ds.id, "dataset"))
                      /\ created' = Append(created, ds)
                 ELSE /\ Finish(p, Returned("create", ds.id, "raised"))
                      /\ UNCHANGED created
    /\ UNCHANGED <<files, cli, issued, deletedTrue, removeFailed, deleteArgs, calls>>

(***************************************************************************)
(* DatasetManager.get_dataset and list_datasets, as functions of the       *)
(* document, and as calls                                                  *)
(***************************************************************************)
\* lines 154-160: [raised, found, data]
GetDataset(d, dataset_id) ==
    LET m == _load_metadata(d) IN
    IF m.raised THEN [raised |-> TRUE, found |-> FALSE, data |-> to_dict(NoDataset)]
    ELSE IF ~HasKey(m.value, dataset_id)
    THEN [raised |-> FALSE, found |-> FALSE, data |-> to_dict(NoDataset)]
    ELSE [raised |-> FALSE, found |-> TRUE, data |-> Lookup(m.value, dataset_id)]

get_dataset(p) ==
    /\ pc[p] = "idle"
    /\ \E dataset_id \in Ids :
          LET g == GetDataset(doc, dataset_id) IN
          Finish(p, IF g.raised THEN Returned("get", dataset_id, "raised")
                    ELSE IF ~g.found THEN Returned("get", dataset_id, "none")
                    ELSE Returned("get", dataset_id, "dataset"))
    /\ UNCHANGED <<doc, files, cli, issued, created, deletedTrue, removeFailed,
                   deleteArgs, faults, calls>>

\* lines 164-171, with the defaults every rebuilt record would draw
ListDatasets(d) ==
    LET m == _load_metadata(d) IN
    [raised |-> m.raised,
     datasets |-> [i \in 1 .. Len(m.value) |-> from_dict(m.value[i][2], NoDefaults)]]

list_datasets(p) ==
    /\ pc[p] = "idle"
    /\ LET l == ListDatasets(doc) IN
       Finish(p, IF l.raised THEN Returned("list", NoId, "raised")
                 ELSE Returned("list", NoId, "list"))
    /\ UNCHANGED <<doc, files, cli, issued, created, deletedTrue, removeFailed,
                   deleteArgs, faults, calls>>

(***************************************************************************)
(* DatasetManager.delete_dataset                                           *)
(***************************************************************************)
\* lines 176-178
StartDelete(p, dataset_id, route) ==
    /\ pc[p] = "idle"
    /\ calls < MaxCalls
    /\ calls' = calls + 1
    /\ deleteArgs' = deleteArgs \cup {dataset_id}
    /\ LET g == GetDataset(doc, dataset_id) IN
       IF g.raised
       THEN /\ via' = [via EXCEPT ![p] = "direct"]
            /\ pc' = [pc EXCEPT ![p] = "idle"]
            /\ loc' = [loc EXCEPT ![p] = NoLocals]
            /\ ret' = [ret EXCEPT ![p] = Returned("delete", dataset_id, "raised")]
            /\ anyRaised' = TRUE
            /\ resp' = IF route = "direct" THEN resp
                       ELSE Response(route, TRUE, "none", 500)
       ELSE IF ~g.found
       THEN /\ via' = [via EXCEPT ![p] = "direct"]
            /\ pc' = [pc EXCEPT ![p] = "idle"]
            /\ loc' = [loc EXCEPT ![p] = NoLocals]
            /\ ret' = [ret EXCEPT ![p] = Returned("delete", dataset_id, "false")]
            /\ resp' = IF route = "direct" THEN resp
                       ELSE Response(route, TRUE, "none", 500)
            /\ UNCHANGED anyRaised
       ELSE \E dflt \in DefaultsFor(g.data) :
            /\ via' = [via EXCEPT ![p] = route]
            /\ pc' = [pc EXCEPT ![p] = "delete_files"]
            /\ loc' = [loc EXCEPT ![p] = [dataset |-> from_dict(g.data, dflt),
                                          table |-> [numeric |-> 0],
                                          metadata |-> EmptyMapping]]
            /\ UNCHANGED <<ret, resp, anyRaised>>
    /\ UNCHANGED <<doc, files, cli, issued, created, deletedTrue, removeFailed,
                   faults>>

delete_dataset(p) == \E dataset_id \in Ids : StartDelete(p, dataset_id, "direct")

\* line 180, Dataset.delete_files: an error of os.remove is logged and swallowed
RemoveOutcomes == {"ok", "oserror"}

delete_files(p) ==
    /\ pc[p] = "delete_files"
    /\ LET path == loc[p].dataset.data_path IN
       IF exists(path)
       THEN \E outcome \in Outcomes(RemoveOutcomes) :
               /\ Fault(outcome)
               /\ IF outcome = "ok"
                  THEN /\ files' = RemoveFile(files, path)
                       /\ removeFailed' = removeFailed \ {loc[p].dataset.id}
                  ELSE /\ UNCHANGED files
                       /\ removeFailed' = removeFailed \cup {loc[p].dataset.id}
       ELSE UNCHANGED <<files, removeFailed, faults>>
    /\ pc' = [pc EXCEPT ![p] = "delete_load"]
    /\ UNCHANGED <<doc, loc, ret, via, resp, cli, issued, created, deletedTrue,
                   deleteArgs, anyRaised, calls>>

\* line 181
delete_load(p) ==
    /\ pc[p] = "delete_load"
    /\ LET m == _load_metadata(doc) IN
       IF m.raised
       THEN Finish(p, Returned("delete", loc[p].dataset.id, "raised"))
       ELSE /\ loc' = [loc EXCEPT ![p].metadata = m.value]
            /\ pc' = [pc EXCEPT ![p] = "delete_save"]
            /\ UNCHANGED <<ret, via, resp, anyRaised>>
    /\ UNCHANGED <<doc, files, cli, issued, created, deletedTrue, removeFailed,
                   deleteArgs, faults, calls>>

\* lines 182-186
delete_save(p) ==
    /\ pc[p] = "delete_save"
    /\ LET dataset_id == loc[p].dataset.id IN
       IF HasKey(loc[p].metadata, dataset_id)
       THEN \E outcome \in Outcomes(SaveOutcomes) :
               /\ Fault(outcome)
               /\ doc' = _save_metadata(doc, DelItem(loc[p].metadata, dataset_id), outcome)
               /\ IF outcome = "ok"
                  THEN /\ Finish(p, Returned("delete", dataset_id, "true"))
                       /\ deletedTrue' = deletedTrue \cup {loc[p].dataset}
                  ELSE /\ Finish(p, Returned("delete", dataset_id, "raised"))
                       /\ UNCHANGED deletedTrue
       ELSE /\ UNCHANGED <<doc, faults>>
            /\ Finish(p, Returned("delete", dataset_id, "true"))
            /\ deletedTrue' = deletedTrue \cup {loc[p].dataset}
    /\ UNCHANGED <<files, cli, issued, created, removeFailed, deleteArgs, calls>>

(***************************************************************************)
(* The storage directory is a directory like any other: the metadata       *)
(* document may be removed or overwritten from outside the service, with   *)
(* text that is no JSON or with bytes that are no UTF-8 text.              *)
(***************************************************************************)
DamagedKinds == DocKinds \ {"valid"}

EnvDamage ==
    /\ faults < MaxFaults
    /\ faults' = faults + 1
    /\ \E k \in DamagedKinds : doc' = [kind |-> k, items |-> EmptyMapping]
    /\ UNCHANGED <<files, pc, loc, ret, via, resp, cli, issued, created, deletedTrue,
                   removeFailed, deleteArgs, anyRaised, calls>>

(***************************************************************************)
(* utils/helpers.py                                                        *)
(***************************************************************************)
ALLOWED_EXTENSIONS == {<<"c", "s", "v">>}

\* str.lower(), on the letters of the model's file names
lower(c) ==
    CASE c = "C" -> "c"
      [] c = "S" -> "s"
      [] c = "V" -> "v"
      [] OTHER -> c

\* filename.rsplit('.', 1)[1]: what follows the last dot
AfterLastDot(filename) ==
    LET last == CHOOSE i \in 1 .. Len(filename) :
                    /\ filename[i] = "."
                    /\ \A j \in (i + 1) .. Len(filename) : filename[j] # "."
    IN  SubSeq(filename, last + 1, Len(filename))

allowed_file(filename) ==
    /\ \E i \in 1 .. Len(filename) : filename[i] = "."
    /\ LET ext == AfterLastDot(filename) IN
       [i \in 1 .. Len(ext) |-> lower(ext[i])] \in ALLOWED_EXTENSIONS

(***************************************************************************)
(* routes/dataset_routes.py                                                *)
(***************************************************************************)
(* What the body of a handler's try block does: it returns, it raises an   *)
(* HTTPException(status), or it raises another exception.                  *)
Returns(status) == [kind |-> "return", status |-> status]
HTTPException(status) == [kind |-> "http", status |-> status]
OtherException == [kind |-> "error", status |-> 0]

\* except Exception as e: raise HTTPException(status_code=500, ...)
\* (HTTPException is an Exception and is caught as well)
except_Exception(body) == IF body.kind = "return" THEN body.status ELSE 500

\* except HTTPException: raise, and then except Exception
except_HTTPException_first(body) ==
    IF body.kind = "error" THEN 500 ELSE body.status

\* Dataset.get_dataframe: raises when the file is missing or cannot be unpickled
get_dataframe(ds) ==
    IF exists(ds.data_path) /\ files[ds.data_path].readable
    THEN [raised |-> FALSE, table |-> files[ds.data_path].table]
    ELSE [raised |-> TRUE, table |-> [numeric |-> 0]]

\* the uploads: file name and content (length, whether it decodes and parses)
Contents ==
    {[length |-> 0, csv |-> "unparsable", table |-> [numeric |-> 0]],
     [length |-> 7, csv |-> "undecodable", table |-> [numeric |-> 0]],
     [length |-> 7, csv |-> "ok", table |-> [numeric |-> 0]],
     [length |-> 7, csv |-> "ok", table |-> [numeric |-> 2]]}

UploadNames == {NameCsv, NameTxt, NameUpperCsv, NameNoDot, NameEmpty}

\* why create_dataset rejects an upload, lines 31-41
RejectReason(filename, content) ==
    IF filename = NameEmpty THEN "no_filename"
    ELSE IF ~allowed_file(filename) THEN "extension"
    ELSE IF content.csv # "ok" THEN "csv"
    ELSE "none"

\* a handler that answers without a further DatasetManager call
Answer(p, route, known, reject, status) ==
    /\ pc[p] = "idle"
    /\ resp' = Response(route, known, reject, status)
    /\ UNCHANGED <<doc, files, pc, loc, ret, via, cli, issued, created, deletedTrue,
                   removeFailed, deleteArgs, anyRaised, faults, calls>>

\* GET /datasets/, lines 17-24
route_list_datasets(p) ==
    LET l == ListDatasets(doc)
        body == IF l.raised THEN OtherException ELSE Returns(200)
    IN  Answer(p, "list", FALSE, "none", except_Exception(body))

\* POST /datasets/, lines 27-56
route_create_dataset(p) ==
    \E filename \in UploadNames, content \in Contents :
        LET reject == RejectReason(filename, content) IN
        IF reject # "none"
        THEN Answer(p, "create", FALSE, reject, except_Exception(HTTPException(400)))
        ELSE \E utcnow \in Datetimes :
                StartCreate(p, filename, content.length, content.table, utcnow, "create")

\* GET /datasets/{dataset_id}/, lines 59-68
route_get_dataset(p) ==
    \E dataset_id \in Ids :
        LET g == GetDataset(doc, dataset_id)
            body == IF g.raised THEN OtherException
                    ELSE IF ~g.found THEN HTTPException(404)
                    ELSE Returns(200)
        IN  Answer(p, "get", g.found, "none", except_Exception(body))

(* DELETE /datasets/{dataset_id}/, lines 71-86: dataset.to_dict() is       *)
(* evaluated before the test for None, and raises AttributeError on None.  *)
route_delete_dataset(p) ==
    \E dataset_id \in Ids :
        LET g == GetDataset(doc, dataset_id) IN
        IF g.raised \/ ~g.found
        THEN Answer(p, "delete", g.found, "none", except_Exception(OtherException))
        ELSE StartDelete(p, dataset_id, "delete")

\* GET /datasets/{dataset_id}/excel/, lines 89-112
route_export_excel(p) ==
    \E dataset_id \in Ids :
        LET g == GetDataset(doc, dataset_id)
            ds == from_dict(g.data, NoDefaults)
            body == IF g.raised THEN OtherException
                    ELSE IF ~g.found THEN HTTPException(404)
                    ELSE IF get_dataframe(ds).raised THEN OtherException
                    ELSE Returns(200)
        IN  Answer(p, "excel", g.found, "none", except_Exception(body))

\* GET /datasets/{dataset_id}/stats/, lines 115-146
route_get_stats(p) ==
    \E dataset_id \in Ids :
        LET g == GetDataset(doc, dataset_id)
            ds == from_dict(g.data, NoDefaults)
            body == IF g.raised THEN OtherException
                    ELSE IF ~g.found THEN HTTPException(404)
                    ELSE IF get_dataframe(ds).raised THEN OtherException
                    ELSE Returns(200)
        IN  Answer(p, "stats", g.found, "none", except_HTTPException_first(body))

\* GET /datasets/{dataset_id}/plot/, lines 149-195
route_generate_plot(p) ==
    \E dataset_id \in Ids :
        LET g == GetDataset(doc, dataset_id)
            ds == from_dict(g.data, NoDefaults)
            df == get_dataframe(ds)
            no_numeric == ~g.raised /\ g.found /\ ~df.raised /\ df.table.numeric = 0
            body == IF g.raised THEN OtherException
                    ELSE IF ~g.found THEN HTTPException(404)
                    ELSE IF df.raised THEN OtherException
                    ELSE IF df.table.numeric = 0 THEN HTTPException(400)
                    ELSE Returns(200)
        IN  Answer(p, "plot", g.found, IF no_numeric THEN "no_numeric" ELSE "none",
                   except_Exception(body))

(***************************************************************************)
(* cli.py                                                                  *)
(***************************************************************************)
\* the statuses the server may answer the CLI with
HttpStatuses == {200, 201, 400, 404, 422, 500}

\* mutant of raise_for_status: only the server errors raise
raise_for_status_5xx(status) == status >= 500 /\ status < 600

\* requests.Response.raise_for_status(): HTTPError on 4xx and 5xx
raise_for_status(status) == status >= 400 /\ status < 600

(* How a command function ends: "return", "HTTPError" or "Exception".      *)
(* file_exists: the file to upload file_exists; connected: the request reached the   *)
(* the server and was answered with status; writable: the output opens.    *)
\* lines 18-26
cli_list_datasets(file_exists, connected, status, writable) ==
    IF ~connected THEN "Exception"
    ELSE IF raise_for_status(status) THEN "HTTPError"
    ELSE "return"

\* lines 29-38
cli_upload_dataset(file_exists, connected, status, writable) ==
    IF ~file_exists THEN "return"
    ELSE IF ~connected THEN "Exception"
    ELSE IF raise_for_status(status) THEN "HTTPError"
    ELSE "return"

\* lines 41-48 and 51-57: get_dataset and delete_dataset
cli_get_or_delete(file_exists, connected, status, writable) ==
    IF ~connected THEN "Exception"
    ELSE IF status = 404 THEN "return"
    ELSE IF raise_for_status(status) THEN "HTTPError"
    ELSE "return"

\* lines 60-68 and 71-79: export_excel and generate_plot
cli_download(file_exists, connected, status, writable) ==
    IF ~connected THEN "Exception"
    ELSE IF status = 404 THEN "return"
    ELSE IF raise_for_status(status) THEN "HTTPError"
    ELSE IF ~writable THEN "Exception"
    ELSE "return"

Commands == {"list", "upload", "get", "delete", "excel", "plot", "help"}

\* lines 107-121: the dispatch on args.command ("help": no command given)
Dispatch(command, file_exists, connected, status, writable) ==
    CASE command = "list" -> cli_list_datasets(file_exists, connected, status, writable)
      [] command = "upload" -> cli_upload_dataset(file_exists, connected, status, writable)
      [] command \in {"get", "delete"} -> cli_get_or_delete(file_exists, connected, status, writable)
      [] command \in {"excel", "plot"} -> cli_download(file_exists, connected, status, writable)
      [] OTHER -> "return"

\* lines 122-127: sys.exit(1) on HTTPError and on any other exception
ExitCode(ending) == IF ending = "return" THEN 0 ELSE 1

\* one run of the CLI
main ==
    /\ Quiescent
    /\ \E command \in Commands, file_exists \in BOOLEAN, connected \in BOOLEAN,
          status \in HttpStatuses, writable \in BOOLEAN :
          cli' = [command |-> command, file_exists |-> file_exists, connected |-> connected,
                  status |-> status, writable |-> writable,
                  exit |-> ExitCode(Dispatch(command, file_exists, connected, status,
                                             writable))]
    /\ UNCHANGED <<doc, files, pc, loc, ret, via, resp, issued, created, deletedTrue,
                   removeFailed, deleteArgs, anyRaised, faults, calls>>

(***************************************************************************)
(* Specifications                                                          *)
(***************************************************************************)
\* the steps that continue a call in progress
Continue(p) ==
    \/ save_dataframe(p)
    \/ create_load(p)
    \/ create_save(p)
    \/ delete_files(p)
    \/ delete_load(p)
    \/ delete_save(p)

\* the DatasetManager calls a caller may begin
Begin(p) ==
    \/ create_dataset(p)
    \/ get_dataset(p)
    \/ list_datasets(p)
    \/ delete_dataset(p)

(* One caller at a time: every call runs to completion before the next     *)
(* begins (the single-writer use the service is built for).                *)
Next == Begin(Caller) \/ Continue(Caller)

Spec == Init /\ [][Next]_vars

(* Calls of the callers interleave at their file operations.               *)
NextConc ==
    \E p \in Procs : create_dataset(p) \/ delete_dataset(p) \/ Continue(p)

SpecConc == Init /\ [][NextConc]_vars

(* Calls that do not overlap, on a storage directory whose metadata        *)
(* document may be damaged from outside.                                   *)
NextEnv == Begin(Caller) \/ Continue(Caller) \/ EnvDamage

SpecEnv == Init /\ [][NextEnv]_vars

\* the requests of the HTTP layer, one at a time
Request(p) ==
    \/ route_list_datasets(p)
    \/ route_create_dataset(p)
    \/ route_get_dataset(p)
    \/ route_delete_dataset(p)
    \/ route_export_excel(p)
    \/ route_get_stats(p)
    \/ route_generate_plot(p)

NextHttp == Request(Caller) \/ Continue(Caller)

SpecHttp == Init /\ [][NextHttp]_vars

\* the runs of the CLI against a server
NextCli == main

SpecCli == Init /\ [][NextCli]_vars


(***************************************************************************)
(* What the calls would return in the current state                        *)
(***************************************************************************)
\* the records of the index, as _load_metadata yields them
IndexItems == _load_metadata(doc).value

IndexPaths == {IndexItems[i][2].data_path : i \in 1 .. Len(IndexItems)}

\* get_dataset(id) returns None
GetsNone(id) == LET g == GetDataset(doc, id) IN ~g.raised /\ ~g.found

\* get_dataset(id) returns the record ds
Gets(id, ds) ==
    LET g == GetDataset(doc, id) IN
    /\ ~g.raised
    /\ g.found
    /\ \A dflt \in DefaultsFor(g.data) : from_dict(g.data, dflt) = ds

\* a delete_dataset(id) stands between its file removal and its index save
InDeleteWindow(id) ==
    \E p \in Procs : pc[p] \in {"delete_load", "delete_save"} /\ loc[p].dataset.id = id

(***************************************************************************)
(* C1                                                                      *)
(***************************************************************************)
(* C1: every record of the index has its content file at data_path, except *)
(* inside a delete between the file removal and the index save; and no     *)
(* content file is without an index entry. The orphan part is stated for   *)
(* the completely written content files and for the states in which no     *)
(* call is in progress, so that neither the file a running create has      *)
(* written nor the remains of a failed content write count against it.     *)
C1_IndexAndFilesAgree ==
    /\ \A i \in 1 .. Len(IndexItems) :
          exists(IndexItems[i][2].data_path) \/ InDeleteWindow(IndexItems[i][1])
    /\ Quiescent =>
          \A path \in DOMAIN files : files[path].readable => path \in IndexPaths

(***************************************************************************)
(* C2                                                                      *)
(***************************************************************************)
(* C2: once delete_dataset(id) has returned True, get_dataset(id) returns  *)
(* None and the content file at the record's data_path does not exist.     *)
C2_DeleteThenGet ==
    \A ds \in deletedTrue : GetsNone(ds.id) /\ ~exists(ds.data_path)

(* C2 amended: once delete_dataset(id) has returned True, get_dataset(id)  *)
(* returns None; the content file is gone exactly when its removal did not *)
(* raise, and is still there when it raised (the error is swallowed).      *)
C2_DeleteThenGetBestEffort ==
    \A ds \in deletedTrue :
       /\ GetsNone(ds.id)
       /\ exists(ds.data_path) <=> ds.id \in removeFailed

\* a get_dataset(id) has returned None after delete_dataset(id) returned True
C2_Witness ==
    \E ds \in deletedTrue :
       /\ ret[Caller] = Returned("get", ds.id, "none")
       /\ ~exists(ds.data_path)

(***************************************************************************)
(* C3                                                                      *)
(***************************************************************************)
(* C3: from the empty index, while no delete_dataset has been called and   *)
(* every create_dataset call has returned, list_datasets returns exactly   *)
(* the records the create_dataset calls returned: as many, and the i-th    *)
(* with the id, filename, file_size, upload_date and data_path of the i-th *)
(* record returned.                                                        *)
C3_ListingComplete ==
    (deleteArgs = {} /\ ~anyRaised) =>
        LET l == ListDatasets(doc) IN
        /\ ~l.raised
        /\ Len(l.datasets) = Len(created)
        /\ \A i \in 1 .. Len(created) : l.datasets[i] = created[i]

\* list_datasets has returned after two creates and no delete
C3_Witness ==
    /\ deleteArgs = {}
    /\ ~anyRaised
    /\ Len(created) >= 2
    /\ ret[Caller].op = "list"

(***************************************************************************)
(* C5                                                                      *)
(***************************************************************************)
(* C5: a record create_dataset has returned is still returned by           *)
(* get_dataset(id), field for field, whatever calls have been made since   *)
(* (returning or raising), as long as delete_dataset(id) was not called.   *)
C5_RecordKept ==
    \A i \in 1 .. Len(created) :
       created[i].id \notin deleteArgs => Gets(created[i].id, created[i])


(***************************************************************************)
(* C4                                                                      *)
(***************************************************************************)
(* C4: for an id that uuid4 has never issued, whatever the state of the    *)
(* metadata document (present, missing or corrupt), get_dataset(id)        *)
(* returns None and delete_dataset(id) returns False; neither raises.      *)
C4_UnknownId ==
    /\ \A id \in Ids \ issued : GetsNone(id)
    /\ \A p \in Procs :
          (ret[p].op = "delete" /\ ret[p].id \notin issued) => ret[p].outcome = "false"

(***************************************************************************)
(* C9                                                                      *)
(***************************************************************************)
(* C9: when the metadata document is corrupt or missing, _load_metadata    *)
(* returns the empty mapping and raises nothing, get_dataset returns None  *)
(* for every id and list_datasets returns the empty list.                  *)
C9_CorruptionNotPropagated ==
    doc.kind # "valid" =>
        /\ _load_metadata(doc) = [raised |-> FALSE, value |-> EmptyMapping]
        /\ \A id \in Ids : GetsNone(id)
        /\ ListDatasets(doc) = [raised |-> FALSE, datasets |-> <<>>]

(***************************************************************************)
(* C6                                                                      *)
(***************************************************************************)
(* C6: get_dataset, delete_dataset, export_excel, get_stats and            *)
(* generate_plot answer a request for an id that is not in the index       *)
(* with status 404.                                                        *)
C6_UnknownIdIs404 ==
    (resp.route \in {"get", "delete", "excel", "stats", "plot"} /\ ~resp.known) =>
        resp.status = 404

(***************************************************************************)
(* C7                                                                      *)
(***************************************************************************)
(* C7: an upload with no file name, with an extension other than csv or    *)
(* with content that is no CSV, and a plot of a table with no numeric      *)
(* column, are answered with status 400.                                   *)
C7_ValidationIs400 == resp.reject # "none" => resp.status = 400

(***************************************************************************)
(* C10                                                                     *)
(***************************************************************************)
\* the run made an HTTP call
Called(c) == c.command \notin {"none", "help"} /\ (c.command = "upload" => c.file_exists)

\* the HTTP call of the run was answered with an error status
ErrorStatus(c) == Called(c) /\ c.connected /\ c.status >= 400

\* another exception occurred: no connection, or the output could not be written
OtherError(c) ==
    /\ Called(c)
    /\ \/ ~c.connected
       \/ c.command \in {"excel", "plot"} /\ c.status < 400 /\ ~c.writable

\* the command did what it is for
Succeeded(c) == Called(c) /\ ~ErrorStatus(c) /\ ~OtherError(c)

(* C10: a run of a command exits with code 1 whenever its HTTP call is     *)
(* answered with an error status (404 included) or another exception      *)
(* occurs, and with code 0 only when the command succeeded. (Stated for    *)
(* the runs that make their HTTP call.)                                    *)
C10_ExitCodes ==
    Called(cli) =>
        /\ (ErrorStatus(cli) \/ OtherError(cli)) => cli.exit = 1
        /\ cli.exit = 0 => Succeeded(cli)

(* C10 amended: a run exits with code 1 exactly when its HTTP call is      *)
(* answered with an error status other than a 404 given to get, delete,    *)
(* excel or plot, or another exception occurs; it exits with code 0 when   *)
(* the command succeeded, when get, delete, excel or plot is answered 404, *)
(* and when upload is given a path that does not exist (no call is made).  *)
C10_ExitCodesBut404 ==
    cli.command \notin {"none", "help"} =>
        LET notFound == /\ cli.command \in {"get", "delete", "excel", "plot"}
                        /\ cli.connected
                        /\ cli.status = 404
        IN  cli.exit = IF (ErrorStatus(cli) /\ ~notFound) \/ OtherError(cli)
                       THEN 1 ELSE 0

\* a get that was answered 404 has exited with code 0
C10_Witness ==
    /\ cli.command = "get"
    /\ cli.connected
    /\ cli.status = 404
    /\ cli.exit = 0


(***************************************************************************)
(* C8                                                                      *)
(***************************************************************************)
InCreate(p) == pc[p] \in {"create_save_dataframe", "create_load", "create_save"}

(* C8: the content files of two create_dataset calls that run at the same  *)
(* time are at distinct paths, and no call writes over a content file      *)
(* that is already there.                                                  *)
C8_ContentFilesApart ==
    /\ [](\A p, q \in Procs :
            (p # q /\ InCreate(p) /\ InCreate(q)) =>
                loc[p].dataset.data_path # loc[q].dataset.data_path)
    /\ [][\A path \in DOMAIN files \cap DOMAIN files' : files'[path] = files[path]]_vars

(* The lost update: two calls have overlapped, both have returned          *)
(* successfully and no file operation has failed, yet a record that        *)
(* create_dataset returned, and that no delete_dataset was called for, is  *)
(* not in the index.                                                       *)
C8_Witness ==
    /\ Quiescent
    /\ faults = 0
    /\ \A p \in Procs : ret[p].outcome \in {"dataset", "true"}
    /\ \E i \in 1 .. Len(created) :
          created[i].id \notin deleteArgs /\ GetsNone(created[i].id)


(***************************************************************************)
(* C11                                                                     *)
(***************************************************************************)
\* the caller stands inside a delete_dataset(id) that found id in the index
InDelete(p) == pc[p] \in {"delete_files", "delete_load", "delete_save"}

\* the index entry of id in document d as _load_metadata yields it, if any
EntryOf(d, id) ==
    LET m == _load_metadata(d).value IN
    IF HasKey(m, id) THEN <<Lookup(m, id)>> ELSE <<>>

(* One step of a delete_dataset(id) that found id in the index:             *)
(*  - order: the content file is touched only by the first step, while the  *)
(*    index entry is still there and with the document left alone; the      *)
(*    document is touched only by the last step, after the removal was      *)
(*    attempted, with the files left alone;                                 *)
(*  - swallowed: a removal that raises ends nothing, the call goes on to    *)
(*    load the index, and once its save has gone through the entry is gone  *)
(*    from a saved index and the call returns True;                         *)
(*  - others: no step removes or changes the index entry or the content     *)
(*    file of another id.                                                   *)
DeleteStepKeepsToItsId ==
    InDelete(Caller) =>
        LET id == loc[Caller].dataset.id
            path == loc[Caller].dataset.data_path
        IN  /\ files' # files =>
                  /\ pc[Caller] = "delete_files"
                  /\ EntryOf(doc, id) # <<>>
                  /\ doc' = doc
            /\ doc' # doc =>
                  /\ pc[Caller] = "delete_save"
                  /\ path \notin DOMAIN files \/ id \in removeFailed
                  /\ files' = files
            /\ pc[Caller] = "delete_files" =>
                  /\ pc'[Caller] = "delete_load"
                  /\ anyRaised' = anyRaised
                  /\ path \notin DOMAIN files' \/ id \in removeFailed'
            /\ (pc[Caller] = "delete_save" /\ id \in removeFailed /\ faults' = faults) =>
                  /\ doc'.kind = "valid"
                  /\ EntryOf(doc', id) = <<>>
                  /\ ret'[Caller] = Returned("delete", id, "true")
            /\ \A j \in Ids \ {id} : EntryOf(doc', j) = EntryOf(doc, j)
            /\ \A q \in (DOMAIN files \cup DOMAIN files') \ {path} :
                  q \in DOMAIN files /\ q \in DOMAIN files' /\ files'[q] = files[q]

(* C11: delete_dataset(id) on an id of the index attempts the removal of    *)
(* the content file, then removes the index entry and saves the index; a    *)
(* removal that raises is swallowed and the call still removes the entry,   *)
(* saves and returns True; and the call never removes or changes the index  *)
(* entry or the content file of any other id.                               *)
C11_DeleteKeepsToItsId == [][DeleteStepKeepsToItsId]_vars

=============================================================================
